---------------------------- MODULE Spec2Model ----------------------------
(***************************************************************************)
(* Crab Pong (src/src/App.tsx): the per-frame simulation (two CrabPaddle   *)
(* controllers and the Ball, driven by the render loop's useFrame          *)
(* callbacks), the keyboard handler and the match state kept by App.       *)
(*                                                                         *)
(* Numbers.  The program computes in floating point.  Lengths and          *)
(* velocities are modelled in fixed point, Scale parts to the unit, and a  *)
(* frame's delta in milliseconds.  A product is rounded toward zero to the *)
(* nearest part.                                                           *)
(*                                                                         *)
(* Frames.  One rendered frame runs the useFrame callbacks in the order    *)
(* they were subscribed: the player's CrabPaddle, the AI's CrabPaddle, the *)
(* Ball.  The state updates handleScore makes (setScore1, setGameState,    *)
(* setWinner) are committed by React before the next frame is rendered, so *)
(* a frame and the commit of its score are one step.                       *)
(***************************************************************************)
EXTENDS Integers, Sequences, FiniteSets, TLC

(* Fixed point: three decimal digits. *)
Scale == 10 * 10 * 10

(* ---- Game constants (App.tsx 8-13) ---- *)
ARENA_WIDTH == 12 * Scale
ARENA_HEIGHT == 8 * Scale
PADDLE_WIDTH == (25 * Scale) \div 10
BALL_SPEED == 8 * Scale
PADDLE_SPEED == 10
WINNING_SCORE == 5

(* Literals of the frame callbacks. *)
AI_SPEED == 3
KEY_STEP == (5 * Scale) \div 10
BALL_RADIUS == (3 * Scale) \div 10
PADDLE_PLANE == (15 * Scale) \div 10
SCORE_MARGIN == 1 * Scale
SPIN == 2
ACCEL_NUM == 105
ACCEL_DEN == 100

(* ---- Bounds of the exploration ---- *)
(* Two explorations of the same program.  A match (Spec): long enough to   *)
(* play a match to its end and start the next one, which takes nine        *)
(* frames at least, every frame a stalled one (the render loop's clock     *)
(* reports the whole time a hidden tab was away).  Play (SpecPlay): a few  *)
(* frames of every length, from a 60 fps frame to a stalled one.           *)

(* Match: frames rendered, keydown events delivered. *)
MaxFrames == 10
MaxKeys == 1
(* Play: frames rendered, keydown events delivered. *)
MaxPlayFrames == 3
MaxPlayKeys == 2
(* A frame is explored while both paddles stay within MaxCoord units of    *)
(* the centre (an unclamped paddle can leave the arena, see Lerp).         *)
MaxCoord == 20000
(* Rally: frames rendered, keydown events delivered. *)
MaxRallyFrames == 13
MaxRallyKeys == 1
(* Presses: frames rendered, keydown events delivered (six presses take   *)
(* the target from the centre to a bound).                                 *)
MaxPressFrames == 1
MaxPressKeys == 7
(* Frame deltas in milliseconds. *)
StallDeltas == {1000}
PressDeltas == {16}
PlayDeltas == {16, 200, 1000}
(* Rally: the render loop's deltas of one long rally, frame by frame (an   *)
(* uneven frame rate between 1 and 3 fps); the lateral velocity builds up  *)
(* over six paddle hits.  Frames after the script are stalled ones.        *)
RallyScript == <<1000, 500, 1000, 600, 300, 1000, 500, 600, 500, 600, 500, 500>>
MatchBudget ==
    [frames |-> MaxFrames, keys |-> MaxKeys, deltas |-> StallDeltas,
     script |-> <<>>]
PlayBudget ==
    [frames |-> MaxPlayFrames, keys |-> MaxPlayKeys, deltas |-> PlayDeltas,
     script |-> <<>>]
RallyBudget ==
    [frames |-> MaxRallyFrames, keys |-> MaxRallyKeys, deltas |-> StallDeltas,
     script |-> RallyScript]
PressBudget ==
    [frames |-> MaxPressFrames, keys |-> MaxPressKeys, deltas |-> PressDeltas,
     script |-> <<>>]
(* The deltas the render loop may report for frame number f (from 0). *)
FrameDeltas(b, f) ==
    IF f < Len(b.script) THEN {b.script[f + 1]} ELSE b.deltas
(* Values of (Math.random() - 0.5) * BALL_SPEED, which lies in             *)
(* [-BALL_SPEED/2, BALL_SPEED/2).                                          *)
RandomZ == {-(BALL_SPEED \div 2), 0, BALL_SPEED \div 8}
(* KeyboardEvent.key values: the four bound keys and one unbound key. *)
Keys == {"ArrowUp", "w", "ArrowDown", "s", "Escape"}

VARIABLES
    gameState,      \* App: 'menu' | 'playing' | 'gameover'
    score1,         \* App: the player's score
    score2,         \* App: the AI's score
    winner,         \* App: 1 | 2 | null (0)
    ballX,          \* Ball: meshRef.current.position.x
    ballZ,          \* Ball: meshRef.current.position.z
    velX,           \* Ball: velocity.current.x
    velZ,           \* Ball: velocity.current.z
    ballRefZ,       \* GameScene: ballPositionRef.current.z
    paddle1Z,       \* player CrabPaddle: groupRef.current.position.z
    targetZ,        \* player CrabPaddle: targetZ.current
    paddle2Z,       \* AI CrabPaddle: groupRef.current.position.z
    paddle1RefZ,    \* GameScene: paddle1Ref.current.z
    paddle2RefZ,    \* GameScene: paddle2Ref.current.z
    frame,          \* frames rendered so far
    keys,           \* keydown events delivered so far
    budget,         \* the exploration's bounds (never changes)
    last            \* what the last step did (observation only)

vars == <<gameState, score1, score2, winner, ballX, ballZ, velX, velZ,
          ballRefZ, paddle1Z, targetZ, paddle2Z, paddle1RefZ, paddle2RefZ,
          frame, keys, budget, last>>

appVars == <<gameState, score1, score2, winner>>
ballVars == <<ballX, ballZ, velX, velZ, ballRefZ>>
paddleVars == <<paddle1Z, targetZ, paddle2Z>>
refVars == <<paddle1RefZ, paddle2RefZ>>

(* ---- Arithmetic ---- *)
Abs(x) == IF x < 0 THEN -x ELSE x

Max(a, b) == IF a > b THEN a ELSE b

Min(a, b) == IF a < b THEN a ELSE b

(* v * num / den rounded toward zero (num >= 0, den > 0), computed without *)
(* forming v * num.                                                        *)
MulDiv(v, num, den) ==
    LET m == Abs(v)
        r == (m \div den) * num + ((m % den) * num) \div den
    IN  IF v < 0 THEN -r ELSE r

(* THREE.MathUtils.clamp(value, min, max) = max(min, min(max, value)). *)
Clamp(value, lo, hi) == Max(lo, Min(hi, value))

(* THREE.MathUtils.lerp(x, y, t) = (1 - t) * x + t * y with t = tNum/1000: *)
(* t is not clamped to [0, 1].                                             *)
Lerp(x, y, tNum) == x + MulDiv(y - x, tNum, 1000)

PADDLE_MIN == -(ARENA_HEIGHT \div 2) + PADDLE_WIDTH \div 2

PADDLE_MAX == ARENA_HEIGHT \div 2 - PADDLE_WIDTH \div 2

WALL_MIN == -(ARENA_HEIGHT \div 2) + BALL_RADIUS

WALL_MAX == ARENA_HEIGHT \div 2 - BALL_RADIUS

(* Where GameScene puts the paddles along the width (App.tsx 347, 352). *)
PLAYER_X == -(ARENA_WIDTH \div 2) + 1 * Scale

AI_X == ARENA_WIDTH \div 2 - 1 * Scale

(* The paddle test's reach: PADDLE_WIDTH / 2 + 0.3. *)
Reach == PADDLE_WIDTH \div 2 + BALL_RADIUS


(* ---- CrabPaddle ---- *)

(* Mutant of HandleKeyDown: the target is stepped without the bounds. *)
HandleKeyDownUnbounded(target, key) ==
    LET up == IF key \in {"ArrowUp", "w"} THEN target - KEY_STEP ELSE target
    IN  IF key \in {"ArrowDown", "s"} THEN up + KEY_STEP ELSE up

(* handleKeyDown (player only): two independent ifs on e.key. *)
HandleKeyDown(target, key) ==
    LET up == IF key \in {"ArrowUp", "w"}
              THEN Max(target - KEY_STEP, PADDLE_MIN)
              ELSE target
    IN  IF key \in {"ArrowDown", "s"}
        THEN Min(up + KEY_STEP, PADDLE_MAX)
        ELSE up

(* useFrame, player branch: lerp toward targetZ at delta * PADDLE_SPEED.   *)
(* The callback does not read isPaused.                                    *)
PlayerFrame(z, target, delta) == Lerp(z, target, delta * PADDLE_SPEED)

(* useFrame, AI branch: lerp toward the clamped ballPosition.z at delta*3. *)
TargetAIZ(refZ) == Clamp(refZ, PADDLE_MIN, PADDLE_MAX)

AIFrame(z, refZ, delta) == Lerp(z, TargetAIZ(refZ), delta * AI_SPEED)

(* ---- Ball.useFrame, statement by statement ---- *)
(* A ball record: position, velocity, ballPositionRef.z, the onScore calls *)
(* made so far in this update, and what the update's branches did.         *)

(* Mutant of IsPaused: the ball update ignores the pause. *)
IsPausedNever(gs) == FALSE

(* The isPaused prop GameScene passes down (App.tsx 479). *)
IsPaused(gs) == gs # "playing"

(* position += velocity * delta; ballPositionRef.current.copy(position). *)
Integrate(b, delta) ==
    LET x == b.x + MulDiv(b.vx, delta, 1000)
        z == b.z + MulDiv(b.vz, delta, 1000)
    IN  [b EXCEPT !.x = x, !.z = z, !.refZ = z]

(* Mutant of WallCollision: the velocity is reflected but the position is  *)
(* left where the integration put it.                                      *)
WallCollisionNoClamp(b) ==
    IF b.z > WALL_MAX \/ b.z < WALL_MIN
    THEN [b EXCEPT !.vz = -b.vz, !.wall = TRUE]
    ELSE b

(* Top/bottom wall collision. *)
WallCollision(b) ==
    IF b.z > WALL_MAX \/ b.z < WALL_MIN
    THEN [b EXCEPT !.vz = -b.vz, !.z = Clamp(b.z, WALL_MIN, WALL_MAX),
                   !.wall = TRUE]
    ELSE b

(* Mutant of PaddleCollisionLeft: the bounce loses speed (the factor is     *)
(* ACCEL_DEN / ACCEL_NUM).                                                 *)
PaddleCollisionLeftDamped(b, p1) ==
    IF b.x < -(ARENA_WIDTH \div 2) + PADDLE_PLANE
    THEN IF Abs(b.z - p1) < Reach
         THEN [b EXCEPT !.vx = MulDiv(Abs(b.vx), ACCEL_DEN, ACCEL_NUM),
                        !.vz = b.vz + (b.z - p1) * SPIN,
                        !.x = -(ARENA_WIDTH \div 2) + PADDLE_PLANE,
                        !.band1 = TRUE, !.hit1 = TRUE, !.zc1 = b.z]
         ELSE [b EXCEPT !.band1 = TRUE, !.zc1 = b.z]
    ELSE b

(* Paddle collision (left - player), against paddle1Ref.current.z. *)
PaddleCollisionLeft(b, p1) ==
    IF b.x < -(ARENA_WIDTH \div 2) + PADDLE_PLANE
    THEN IF Abs(b.z - p1) < Reach
         THEN [b EXCEPT !.vx = MulDiv(Abs(b.vx), ACCEL_NUM, ACCEL_DEN),
                        !.vz = b.vz + (b.z - p1) * SPIN,
                        !.x = -(ARENA_WIDTH \div 2) + PADDLE_PLANE,
                        !.band1 = TRUE, !.hit1 = TRUE, !.zc1 = b.z]
         ELSE [b EXCEPT !.band1 = TRUE, !.zc1 = b.z]
    ELSE b

(* Paddle collision (right - AI), against paddle2Ref.current.z. *)
PaddleCollisionRight(b, p2) ==
    IF b.x > ARENA_WIDTH \div 2 - PADDLE_PLANE
    THEN IF Abs(b.z - p2) < Reach
         THEN [b EXCEPT !.vx = -MulDiv(Abs(b.vx), ACCEL_NUM, ACCEL_DEN),
                        !.vz = b.vz + (b.z - p2) * SPIN,
                        !.x = ARENA_WIDTH \div 2 - PADDLE_PLANE,
                        !.band2 = TRUE, !.hit2 = TRUE, !.zc2 = b.z]
         ELSE [b EXCEPT !.band2 = TRUE, !.zc2 = b.z]
    ELSE b

(* Mutant of ScoreLeft: the serve keeps the speed the rally had reached. *)
ScoreLeftKeepsSpeed(b, rnd) ==
    IF b.x < -(ARENA_WIDTH \div 2) - SCORE_MARGIN
    THEN [b EXCEPT !.fired = Append(b.fired, 2),
                   !.x = 0, !.z = 0, !.vx = Abs(b.vx), !.vz = rnd]
    ELSE b

(* Mutant of ScoreLeft: onScore is called a second time after the reset. *)
ScoreLeftTwice(b, rnd) ==
    IF b.x < -(ARENA_WIDTH \div 2) - SCORE_MARGIN
    THEN [b EXCEPT !.fired = Append(Append(b.fired, 2), 2),
                   !.x = 0, !.z = 0, !.vx = BALL_SPEED, !.vz = rnd]
    ELSE b

(* Mutant of ScoreLeft: the point past the player's edge is credited to    *)
(* the player.                                                             *)
ScoreLeftCreditsPlayer(b, rnd) ==
    IF b.x < -(ARENA_WIDTH \div 2) - SCORE_MARGIN
    THEN [b EXCEPT !.fired = Append(b.fired, 1),
                   !.x = 0, !.z = 0, !.vx = BALL_SPEED, !.vz = rnd]
    ELSE b

(* Score past the player's edge: onScore(2), ball to the centre, serve. *)
ScoreLeft(b, rnd) ==
    IF b.x < -(ARENA_WIDTH \div 2) - SCORE_MARGIN
    THEN [b EXCEPT !.fired = Append(b.fired, 2),
                   !.x = 0, !.z = 0, !.vx = BALL_SPEED, !.vz = rnd]
    ELSE b

(* Mutant of ScoreRight: the serve after the player's point goes the way   *)
(* the ball was travelling.                                                *)
ScoreRightServesOn(b, rnd) ==
    IF b.x > ARENA_WIDTH \div 2 + SCORE_MARGIN
    THEN [b EXCEPT !.fired = Append(b.fired, 1),
                   !.x = 0, !.z = 0, !.vx = BALL_SPEED, !.vz = rnd]
    ELSE b

(* Score past the AI's edge: onScore(1), ball to the centre, serve. *)
ScoreRight(b, rnd) ==
    IF b.x > ARENA_WIDTH \div 2 + SCORE_MARGIN
    THEN [b EXCEPT !.fired = Append(b.fired, 1),
                   !.x = 0, !.z = 0, !.vx = -BALL_SPEED, !.vz = rnd]
    ELSE b

(* Mutant of ClampVelocity: the final clamp is left out. *)
ClampVelocityOff(b) == b

(* Clamp velocity. *)
ClampVelocity(b) ==
    [b EXCEPT !.vz = Clamp(b.vz, -((BALL_SPEED * 3) \div 2),
                           (BALL_SPEED * 3) \div 2)]

(* The callback's statements up to the score branches. *)
BallSteps(b, delta, p1, p2, rndL, rndR) ==
    ScoreRight(
      ScoreLeft(
        PaddleCollisionRight(
          PaddleCollisionLeft(
            WallCollision(Integrate(b, delta)), p1), p2), rndL), rndR)

(* The whole callback; paused, it returns at once. *)
BallFrame(b, paused, delta, p1, p2, rndL, rndR) ==
    IF paused
    THEN b
    ELSE ClampVelocity(BallSteps(b, delta, p1, p2, rndL, rndR))

(* ---- App ---- *)

(* Mutant of HandleScore: the match ends one point early. *)
HandleScoreEarly(app, player) ==
    IF player = 1
    THEN LET newScore == app.score1 + 1
         IN  IF newScore >= WINNING_SCORE - 1
             THEN [app EXCEPT !.score1 = newScore, !.gameState = "gameover",
                              !.winner = 1]
             ELSE [app EXCEPT !.score1 = newScore]
    ELSE LET newScore == app.score2 + 1
         IN  IF newScore >= WINNING_SCORE - 1
             THEN [app EXCEPT !.score2 = newScore, !.gameState = "gameover",
                              !.winner = 2]
             ELSE [app EXCEPT !.score2 = newScore]

(* handleScore(player): the updater of setScore1 / setScore2. *)
HandleScore(app, player) ==
    IF player = 1
    THEN LET newScore == app.score1 + 1
         IN  IF newScore >= WINNING_SCORE
             THEN [app EXCEPT !.score1 = newScore, !.gameState = "gameover",
                              !.winner = 1]
             ELSE [app EXCEPT !.score1 = newScore]
    ELSE LET newScore == app.score2 + 1
         IN  IF newScore >= WINNING_SCORE
             THEN [app EXCEPT !.score2 = newScore, !.gameState = "gameover",
                              !.winner = 2]
             ELSE [app EXCEPT !.score2 = newScore]

(* The onScore calls of one ball update, applied in the order made. *)
RECURSIVE HandleScores(_, _)
HandleScores(app, fired) ==
    IF fired = <<>>
    THEN app
    ELSE HandleScores(HandleScore(app, Head(fired)), Tail(fired))

(* Mutant of StartGameResult: setWinner(null) is forgotten. *)
StartGameKeepsWinner(app) ==
    [app EXCEPT !.score1 = 0, !.score2 = 0, !.gameState = "playing"]

(* Mutant of StartGameResult: setScore2(0) is forgotten. *)
StartGameKeepsScore2(app) ==
    [app EXCEPT !.score1 = 0, !.winner = 0, !.gameState = "playing"]

(* startGame. *)
StartGameResult(app) ==
    [app EXCEPT !.score1 = 0, !.score2 = 0, !.winner = 0,
                !.gameState = "playing"]

(* Mutant of StartButtonShown: the button is rendered during play too. *)
StartButtonAlways(gs) == TRUE

(* The start button is rendered by the menu overlay and by the game-over   *)
(* overlay only.                                                           *)
StartButtonShown(gs) == gs \in {"menu", "gameover"}

(* ---- The state machine ---- *)

(* last: the step just taken.  op: "init", "key", "start" or "frame";      *)
(* from: gameState before the step; rest: the player's paddle was at its   *)
(* target before the step; delta: the frame's delta; vx0: velocity.x       *)
(* before the frame; fired: the onScore calls of the frame's ball update;  *)
(* wall, band1, band2, hit1, hit2: the branches the ball update took;      *)
(* zc1, zc2: the ball's z when the paddle test was made; key: the key      *)
(* pressed; aiT: targetAIZ of the frame; vz0: velocity.z before the frame; *)
(* xi, zi: the ball's position after the integration; zw, vzw: position.z  *)
(* and velocity.z after the wall test; vzp: velocity.z before the final    *)
(* clamp.                                                                  *)

NoEvent ==
    [op |-> "init", delta |-> 0, from |-> "menu", rest |-> TRUE,
     vx0 |-> 0, fired |-> <<>>, wall |-> FALSE, band1 |-> FALSE, band2 |-> FALSE,
     hit1 |-> FALSE, hit2 |-> FALSE, zc1 |-> 0, zc2 |-> 0,
     key |-> "", aiT |-> 0, vz0 |-> 0, xi |-> 0, zi |-> 0, zw |-> 0,
     vzw |-> 0, vzp |-> 0]

Start(b) ==
    /\ budget = b
    /\ gameState = "menu"
    /\ score1 = 0
    /\ score2 = 0
    /\ winner = 0
    /\ ballX = 0
    /\ ballZ = 0
    /\ velX = BALL_SPEED
    /\ velZ = BALL_SPEED \div 2
    /\ ballRefZ = 0
    /\ paddle1Z = 0
    /\ targetZ = 0
    /\ paddle2Z = 0
    /\ paddle1RefZ = 0
    /\ paddle2RefZ = 0
    /\ frame = 0
    /\ keys = 0
    /\ last = NoEvent

Init == Start(MatchBudget)

InitPlay == Start(PlayBudget)

(* A keydown event reaches the window listener. *)
KeyDown(key) ==
    /\ keys < budget.keys
    /\ keys' = keys + 1
    /\ targetZ' = HandleKeyDown(targetZ, key)
    /\ last' = [NoEvent EXCEPT !.op = "key", !.from = gameState,
                                !.rest = (paddle1Z = targetZ), !.key = key]
    /\ UNCHANGED <<appVars, ballVars, paddle1Z, paddle2Z, refVars, frame,
                   budget>>

(* The start button is clicked. *)
StartGame ==
    /\ StartButtonShown(gameState)
    /\ LET app == StartGameResult([score1 |-> score1, score2 |-> score2,
                                   gameState |-> gameState, winner |-> winner])
       IN  /\ score1' = app.score1
           /\ score2' = app.score2
           /\ gameState' = app.gameState
           /\ winner' = app.winner
    /\ last' = [NoEvent EXCEPT !.op = "start", !.from = gameState]
    /\ UNCHANGED <<ballVars, paddleVars, refVars, frame, keys, budget>>

(* One rendered frame: player paddle, AI paddle, ball, then the commit of  *)
(* the score the ball reported.                                            *)
(* At most one of the two Math.random() calls of a ball update is made     *)
(* (the first score branch leaves the ball at the centre), so one drawn    *)
(* value rnd serves both.                                                  *)
Frame(delta, rnd) ==
    /\ frame < budget.frames
    /\ LET p1 == PlayerFrame(paddle1Z, targetZ, delta)
           p2 == AIFrame(paddle2Z, ballRefZ, delta)
           b0 == [x |-> ballX, z |-> ballZ, vx |-> velX, vz |-> velZ,
                  refZ |-> ballRefZ, fired |-> <<>>, wall |-> FALSE,
                  band1 |-> FALSE, band2 |-> FALSE,
                  hit1 |-> FALSE, hit2 |-> FALSE, zc1 |-> 0, zc2 |-> 0]
           paused == IsPaused(gameState)
           b == BallFrame(b0, paused, delta,
                          paddle1RefZ, paddle2RefZ, rnd, rnd)
           bi == IF paused THEN b0 ELSE Integrate(b0, delta)
           bw == IF paused THEN b0 ELSE WallCollision(bi)
           bp == IF paused THEN b0
                 ELSE BallSteps(b0, delta, paddle1RefZ, paddle2RefZ, rnd, rnd)
           app == HandleScores([score1 |-> score1, score2 |-> score2,
                                gameState |-> gameState, winner |-> winner],
                               b.fired)
       IN  /\ Abs(p1) <= MaxCoord * Scale
           /\ Abs(p2) <= MaxCoord * Scale
           /\ paddle1Z' = p1
           /\ paddle2Z' = p2
           /\ ballX' = b.x
           /\ ballZ' = b.z
           /\ velX' = b.vx
           /\ velZ' = b.vz
           /\ ballRefZ' = b.refZ
           /\ score1' = app.score1
           /\ score2' = app.score2
           /\ gameState' = app.gameState
           /\ winner' = app.winner
           /\ last' = [op |-> "frame", delta |-> delta, from |-> gameState,
                       rest |-> (paddle1Z = targetZ), vx0 |-> velX,
                       fired |-> b.fired, wall |-> b.wall,
                       band1 |-> b.band1, band2 |-> b.band2,
                       hit1 |-> b.hit1, hit2 |-> b.hit2,
                       zc1 |-> b.zc1, zc2 |-> b.zc2, key |-> "",
                       aiT |-> TargetAIZ(ballRefZ), vz0 |-> velZ,
                       xi |-> bi.x, zi |-> bi.z, zw |-> bw.z,
                       vzw |-> bw.vz, vzp |-> bp.vz]
    /\ frame' = frame + 1
    /\ UNCHANGED <<targetZ, refVars, keys, budget>>

Next ==
    \/ \E key \in Keys : KeyDown(key)
    \/ StartGame
    \/ \E delta \in FrameDeltas(budget, frame) :
          \E rnd \in RandomZ : Frame(delta, rnd)

Spec == Init /\ [][Next]_vars

SpecPlay == InitPlay /\ [][Next]_vars

InitPress == Start(PressBudget)

SpecPress == InitPress /\ [][Next]_vars

InitRally == Start(RallyBudget)

SpecRally == InitRally /\ [][Next]_vars

(* ---- Properties ---- *)

InPaddleRange(z) == PADDLE_MIN <= z /\ z <= PADDLE_MAX

(* C1: in every reachable state both paddles' lateral positions lie within *)
(* [-ARENA_HEIGHT/2 + PADDLE_WIDTH/2, ARENA_HEIGHT/2 - PADDLE_WIDTH/2].    *)
C1_PaddlesWithinWalls == InPaddleRange(paddle1Z) /\ InPaddleRange(paddle2Z)

(* C2: a ball inside a paddle's collision band bounces in that update if   *)
(* and only if its lateral distance to the position the paddle controller  *)
(* produced in that frame is within PADDLE_WIDTH/2 + 0.3.                  *)
C2_CollisionUsesPaddlePosition ==
    last.op = "frame" =>
        /\ last.band1 => (last.hit1 <=> Abs(last.zc1 - paddle1Z) < Reach)
        /\ last.band2 => (last.hit2 <=> Abs(last.zc2 - paddle2Z) < Reach)

(* C3: in the step in which a score reaches WINNING_SCORE the phase is     *)
(* gameover at the end of that same step, and a step taken in gameover     *)
(* that is not the start command changes neither score.                    *)
C3_Step ==
    /\ (score1' >= WINNING_SCORE \/ score2' >= WINNING_SCORE)
           => gameState' = "gameover"
    /\ (gameState = "gameover" /\ last'.op # "start")
           => (score1' = score1 /\ score2' = score2)

C3_WinTermination == [][C3_Step]_vars

(* C3 witness: a stalled frame has been rendered on the game-over screen. *)
C3_Witness ==
    /\ gameState = "gameover"
    /\ last.op = "frame"
    /\ last.from = "gameover"
    /\ last.delta = 1000
    /\ score1 = WINNING_SCORE

(* C4: both scores are >= 0; a step taken while playing lowers no score;   *)
(* only the start command lowers a score, and it lowers it to 0.           *)
C4_Step ==
    /\ score1' >= 0 /\ score2' >= 0
    /\ gameState = "playing" => (score1' >= score1 /\ score2' >= score2)
    /\ last'.op # "start" => (score1' >= score1 /\ score2' >= score2)
    /\ (score1' < score1 \/ score2' < score2) => (score1' = 0 /\ score2' = 0)

C4_ScoreMonotone == [][C4_Step]_vars

(* C4 witness: a point was scored during play with both scores positive. *)
C4_Witness ==
    /\ last.op = "frame"
    /\ last.fired # <<>>
    /\ gameState = "playing"
    /\ score1 >= 1
    /\ score2 >= 1

(* C5: the phase changes only menu->playing and gameover->playing (by the  *)
(* start command) and playing->gameover (by a score event that takes a     *)
(* score to WINNING_SCORE); a score event with both scores below           *)
(* WINNING_SCORE leaves the phase playing.                                 *)
C5_Step ==
    /\ \/ gameState' = gameState
       \/ /\ gameState \in {"menu", "gameover"}
          /\ gameState' = "playing"
          /\ last'.op = "start"
       \/ /\ gameState = "playing"
          /\ gameState' = "gameover"
          /\ last'.op = "frame"
          /\ last'.fired # <<>>
          /\ (score1' = WINNING_SCORE \/ score2' = WINNING_SCORE)
    /\ (last'.op = "frame" /\ last'.fired # <<>>
        /\ score1' < WINNING_SCORE /\ score2' < WINNING_SCORE)
           => gameState' = "playing"

C5_PhaseTransitions == [][C5_Step]_vars

(* C5 witness: the frame just rendered ended the match (playing to        *)
(* gameover) after the match had been started from the menu.               *)
C5_Witness ==
    /\ last.op = "frame"
    /\ last.from = "playing"
    /\ gameState = "gameover"
    /\ winner = 1
    /\ score1 = WINNING_SCORE

(* C6: on the game-over screen, with the player's paddle at rest, a key    *)
(* press followed by a frame leaves the paddle's position unchanged.       *)
C6_Step ==
    (/\ gameState = "gameover"
     /\ last.op = "key"
     /\ last.from = "gameover"
     /\ last.rest
     /\ last'.op = "frame")
        => paddle1Z' = paddle1Z

C6_NoMoveAfterGameOver == [][C6_Step]_vars

(* C7: a frame rendered while the phase is not playing changes neither the *)
(* ball's position and velocity nor either paddle's lateral position.      *)
C7_Step ==
    (gameState # "playing" /\ last'.op = "frame")
        => UNCHANGED <<ballX, ballZ, velX, velZ, paddle1Z, paddle2Z>>

C7_PausedFrameChangesNothing == [][C7_Step]_vars

(* C8: right after the start command both scores are 0, no winner is       *)
(* recorded and the phase is playing.                                      *)
C8_StartResets ==
    last.op = "start" =>
        (score1 = 0 /\ score2 = 0 /\ winner = 0 /\ gameState = "playing")

(* C8 witness: the start command was issued on the game-over screen. *)
C8_Witness == last.op = "start" /\ last.from = "gameover" /\ frame >= WINNING_SCORE

(* C9: right after the start command issued from gameover the ball is at   *)
(* the centre and both paddles and the player's target are at 0.           *)
C9_StartCentres ==
    (last.op = "start" /\ last.from = "gameover") =>
        /\ ballX = 0 /\ ballZ = 0
        /\ paddle1Z = 0 /\ paddle2Z = 0 /\ targetZ = 0

(* C10: at the end of a frame whose ball update fired a score event the    *)
(* ball is at x = 0, z = 0 and |velocity.x| = BALL_SPEED.                  *)
C10_ResetAfterScore ==
    (last.op = "frame" /\ last.fired # <<>>) =>
        (ballX = 0 /\ ballZ = 0 /\ Abs(velX) = BALL_SPEED)

(* C10 witness: a point was scored by a ball the rally had accelerated. *)
C10_Witness ==
    /\ last.op = "frame"
    /\ last.fired # <<>>
    /\ Abs(last.vx0) > BALL_SPEED

(* ---- The serve ---- *)

(* v points from the centre toward the side whose paddle stands at x. *)
PointsToward(v, x) == (v > 0 /\ x > 0) \/ (v < 0 /\ x < 0)

ServeLateralInRange ==
    -(BALL_SPEED \div 2) <= velZ /\ velZ <= BALL_SPEED \div 2

(* C11 as stated: after a score event the serve points toward the side     *)
(* that conceded (the player's side after onScore(2), the AI's side after  *)
(* onScore(1)) and its lateral component is within BALL_SPEED / 2.         *)
C11_ServeTowardConceder ==
    (last.op = "frame" /\ last.fired # <<>>) =>
        /\ last.fired = <<2>> => PointsToward(velX, PLAYER_X)
        /\ last.fired = <<1>> => PointsToward(velX, AI_X)
        /\ ServeLateralInRange

(* C11 amended: after a score event the serve points toward the side that  *)
(* scored: toward the AI's paddle after onScore(2), toward the player's    *)
(* paddle after onScore(1); its lateral component is within BALL_SPEED/2.  *)
C11_ServeTowardScorer ==
    (last.op = "frame" /\ last.fired # <<>>) =>
        /\ last.fired = <<2>> => PointsToward(velX, AI_X)
        /\ last.fired = <<1>> => PointsToward(velX, PLAYER_X)
        /\ ServeLateralInRange

(* C11 witness: the player scored and the ball was served with a lateral   *)
(* component.                                                              *)
C11_Witness ==
    last.op = "frame" /\ last.fired = <<1>> /\ velZ # 0

(* ---- Score events ---- *)

SCORE_EDGE == ARENA_WIDTH \div 2 + SCORE_MARGIN

(* What a frame that scores for player n (the other side being m) does. *)
ScoredBy1 ==
    /\ last'.fired = <<1>>
    /\ score1' = score1 + 1 /\ score2' = score2
    /\ ballX' = 0 /\ ballZ' = 0 /\ velX' = -BALL_SPEED

ScoredBy2 ==
    /\ last'.fired = <<2>>
    /\ score2' = score2 + 1 /\ score1' = score1
    /\ ballX' = 0 /\ ballZ' = 0 /\ velX' = BALL_SPEED

PlayingFrame == last'.op = "frame" /\ last'.from = "playing"

C12_StepAsStated ==
    PlayingFrame =>
        /\ last'.xi > SCORE_EDGE => ScoredBy1
        /\ last'.xi < -SCORE_EDGE => ScoredBy2

(* C12 as stated: whenever the integration step of a ball update takes x   *)
(* beyond 7, that update fires onScore(1) exactly once, leaves the AI's    *)
(* score unchanged, puts the ball at (0, 0) and sets velocity.x to -8;     *)
(* symmetrically below -7 with onScore(2).                                 *)
C12_ScoreWhenIntegratedPastEdge == [][C12_StepAsStated]_vars

C12_Step ==
    PlayingFrame =>
        /\ (last'.xi > SCORE_EDGE /\ ~last'.hit2) => ScoredBy1
        /\ (last'.xi < -SCORE_EDGE /\ ~last'.hit1) => ScoredBy2

(* C12 amended: whenever the integration step takes x beyond 7 and the     *)
(* paddle test of that update does not bounce the ball, the update fires   *)
(* onScore(1) exactly once, leaves the AI's score unchanged, puts the ball *)
(* at (0, 0) and sets velocity.x to -8; symmetrically below -7.            *)
C12_ScoreWhenPastEdgeAndMissed == [][C12_Step]_vars

(* C12 witness: the integration took the ball past the AI's edge, the      *)
(* paddle test missed and the player's point was counted.                  *)
C12_Witness ==
    /\ last.op = "frame" /\ last.from = "playing"
    /\ last.xi > SCORE_EDGE /\ ~last.hit2
    /\ last.fired = <<1>> /\ score1 > 0

(* ---- Walls ---- *)

InWalls(z) == WALL_MIN <= z /\ z <= WALL_MAX

(* C13: the ball's z is within [-3.7, 3.7] in every state; an integration  *)
(* step of a playing frame that leaves the range is reflected in the same  *)
(* update: velocity.z changes sign and keeps its magnitude, the position   *)
(* is put on the wall it crossed and the reflected velocity points back    *)
(* into the arena.                                                         *)
C13_WallContainment ==
    /\ InWalls(ballZ)
    /\ (last.op = "frame" /\ last.from = "playing") =>
          /\ last.wall <=> ~InWalls(last.zi)
          /\ last.zi > WALL_MAX =>
                (last.zw = WALL_MAX /\ last.vzw = -last.vz0 /\ last.vzw < 0)
          /\ last.zi < WALL_MIN =>
                (last.zw = WALL_MIN /\ last.vzw = -last.vz0 /\ last.vzw > 0)
          /\ InWalls(last.zi) => (last.zw = last.zi /\ last.vzw = last.vz0)

(* C13 witness: the ball crossed the upper wall, was reflected, no point   *)
(* was scored and the frame ended with the ball on the wall.               *)
C13_Witness ==
    /\ last.op = "frame" /\ last.from = "playing"
    /\ last.zi > WALL_MAX /\ last.wall /\ last.fired = <<>>
    /\ ballZ = WALL_MAX /\ velZ < 0

(* ---- Velocity ---- *)

MAX_LATERAL == (BALL_SPEED * 3) \div 2

(* C14: in every reachable state |velocity.z| <= 1.5 * BALL_SPEED. *)
C14_LateralSpeedBounded == Abs(velZ) <= MAX_LATERAL

(* C14 witness: a paddle hit's spin took velocity.z beyond the bound and   *)
(* the update's final clamp brought it back.                               *)
C14_Witness ==
    /\ last.op = "frame" /\ (last.hit1 \/ last.hit2)
    /\ Abs(last.vzp) > MAX_LATERAL
    /\ Abs(velZ) = MAX_LATERAL

(* m is 1.05 times n, to the nearest part below. *)
Accelerated(m, n) ==
    /\ m * ACCEL_DEN <= n * ACCEL_NUM
    /\ n * ACCEL_NUM < (m + 1) * ACCEL_DEN

(* C15: velocity.x is never zero and |velocity.x| >= BALL_SPEED in every   *)
(* state; a frame leaves it alone, sets it to +-BALL_SPEED or to 1.05      *)
(* times its magnitude.                                                    *)
C15_AlongSpeedAtLeastBase ==
    /\ velX # 0
    /\ Abs(velX) >= BALL_SPEED
    /\ last.op = "frame" =>
          \/ velX = last.vx0
          \/ Abs(velX) = BALL_SPEED
          \/ Accelerated(Abs(velX), Abs(last.vx0))

(* C15 witness: the player's side bounced a ball the rally had already     *)
(* accelerated.                                                            *)
C15_Witness ==
    /\ last.op = "frame" /\ last.hit1
    /\ Abs(last.vx0) > BALL_SPEED /\ Abs(velX) > Abs(last.vx0)

C16_Step ==
    /\ Len(last'.fired) <= 1
    /\ score1' + score2' <= score1 + score2 + 1
    /\ (last'.op = "frame" /\ last'.fired = <<>>) =>
          (score1' = score1 /\ score2' = score2)

(* C16: a ball update fires at most one score event, so a step raises the  *)
(* sum of the two scores by at most 1, and by nothing without an event.    *)
C16_OneScorePerFrame == [][C16_Step]_vars

(* C16 witness: a frame scored the AI's second point. *)
C16_Witness ==
    last.op = "frame" /\ last.fired = <<2>> /\ score2 = 2

(* ---- Paddle collisions ---- *)

(* C17: when a paddle test bounces the ball, velocity.x afterwards points  *)
(* away from that paddle's wall with 1.05 times its magnitude, velocity.z  *)
(* has grown by 2 * (ball z - the paddle's z) and x is on the paddle plane *)
(* (-4.5 or 4.5).  The paddle's z is the position its controller has       *)
(* given it in this frame.                                                 *)
C17_PaddleCollision ==
    last.op = "frame" =>
        /\ last.hit1 =>
              /\ velX > 0 /\ Accelerated(velX, Abs(last.vx0))
              /\ ballX = -(ARENA_WIDTH \div 2) + PADDLE_PLANE
              /\ last.vzp = last.vzw + SPIN * (last.zc1 - paddle1Z)
        /\ last.hit2 =>
              /\ velX < 0 /\ Accelerated(-velX, Abs(last.vx0))
              /\ ballX = ARENA_WIDTH \div 2 - PADDLE_PLANE
              /\ last.vzp = last.vzw + SPIN * (last.zc2 - paddle2Z)

(* ---- Keyboard ---- *)

C18_Step ==
    last'.op = "key" =>
        /\ InPaddleRange(targetZ')
        /\ last'.key \in {"ArrowUp", "w"} =>
              \/ targetZ' = targetZ - KEY_STEP
              \/ targetZ' = PADDLE_MIN /\ targetZ - KEY_STEP < PADDLE_MIN
        /\ last'.key \in {"ArrowDown", "s"} =>
              \/ targetZ' = targetZ + KEY_STEP
              \/ targetZ' = PADDLE_MAX /\ targetZ + KEY_STEP > PADDLE_MAX
        /\ last'.key \notin {"ArrowUp", "w", "ArrowDown", "s"} =>
              targetZ' = targetZ
        /\ UNCHANGED <<paddle1Z, paddle2Z, ballVars, appVars, refVars>>

(* C18: a key press changes only the player's target: a move key steps    *)
(* it by exactly 0.5 in the pressed direction or stops it at the bound it  *)
(* would pass, the target stays in [-2.75, 2.75], and the paddles, the     *)
(* ball, the scores and the phase are as before the press.                 *)
C18_KeyMovesTargetOnly == [][C18_Step]_vars

(* C18 witness: a press stopped the target at the upper bound. *)
C18_Witness ==
    /\ last.op = "key" /\ last.key \in {"ArrowDown", "s"}
    /\ targetZ = PADDLE_MAX /\ keys = MaxPressKeys

(* ---- Paddle smoothing ---- *)

(* m lies between a and b (in either order). *)
Between(a, m, b) == (a <= m /\ m <= b) \/ (b <= m /\ m <= a)

C19_Step ==
    last'.op = "frame" =>
        /\ Between(paddle1Z, paddle1Z', targetZ)
        /\ Between(paddle2Z, paddle2Z', last'.aiT)

(* C19: on every frame, whatever its delta, a paddle's new position lies   *)
(* between its old position and its clamped target (the player's target,   *)
(* the AI's clamped ball position): the smoothing never overshoots.        *)
C19_NoOvershoot == [][C19_Step]_vars

(* ---- The AI's target ---- *)

C20_Step ==
    last'.op = "frame" => last'.aiT = Clamp(ballZ, PADDLE_MIN, PADDLE_MAX)

(* C20: on every frame the AI paddle's target is the ball's lateral        *)
(* position at that frame, clamped to [-2.75, 2.75], also on the frame     *)
(* after a score event and after the ball was clamped at a wall.           *)
C20_AITargetIsBall == [][C20_Step]_vars

(* ---- Match bookkeeping ---- *)

(* C21: in every reachable state neither score exceeds WINNING_SCORE, the  *)
(* phase is gameover exactly when a winner is recorded, and the recorded   *)
(* winner has WINNING_SCORE points while the other side has fewer.         *)
C21_BookkeepingConsistent ==
    /\ score1 >= 0 /\ score1 <= WINNING_SCORE
    /\ score2 >= 0 /\ score2 <= WINNING_SCORE
    /\ gameState = "gameover" <=> winner # 0
    /\ winner = 1 => (score1 = WINNING_SCORE /\ score2 < WINNING_SCORE)
    /\ winner = 2 => (score2 = WINNING_SCORE /\ score1 < WINNING_SCORE)
    /\ winner = 0 => (score1 < WINNING_SCORE /\ score2 < WINNING_SCORE)

(* C21 witness: the match ended 5-4 for the player. *)
C21_Witness ==
    /\ gameState = "gameover" /\ winner = 1
    /\ score1 = WINNING_SCORE /\ score2 = WINNING_SCORE - 1

(* ---- Rallies ---- *)

(* A playing state no sequence of frames can score from: the ball is on    *)
(* the centre line with no lateral velocity and both paddle tests reach    *)
(* the centre line.  Integration leaves z = 0, the spin adds 2 * 0, and a  *)
(* ball carried past a paddle plane (even past the score line) is bounced  *)
(* before the score tests are made.                                        *)
EndlessRally ==
    /\ gameState = "playing"
    /\ ballZ = 0 /\ velZ = 0
    /\ Abs(ballX) <= ARENA_WIDTH \div 2 - PADDLE_PLANE
    /\ Abs(0 - paddle1RefZ) < Reach
    /\ Abs(0 - paddle2RefZ) < Reach

EndlessRallyStep ==
    EndlessRally => (EndlessRally' /\ last'.fired = <<>>)

(* An EndlessRally state is never left and no step from it scores. *)
EndlessRallyClosed == [][EndlessRallyStep]_vars

(* C22: while the phase is playing and frames keep coming, every rally     *)
(* ends with a score event.  In finite-run form: no reachable state is an  *)
(* EndlessRally state, from which (EndlessRallyClosed) no score event can  *)
(* ever fire.                                                              *)
C22_EveryRallyEnds == ~EndlessRally

=============================================================================
